---- MODULE Spec2Model ----
(***************************************************************************)
(* A model of core/component.go: the component descriptor loader, the      *)
(* overlay loader, the path resolver, the subcomponent installer and the   *)
(* breadth-first traversal IterateComponentTree.                           *)
(*                                                                         *)
(* Strings that are paths are modelled as the sequence of their segments,  *)
(* i.e. as strings.Split(s, "/"):  "./" is <<".", "">>, "/r" is            *)
(* <<"", "r">>, "" is <<"">>, "components/a" is <<"components", "a">>.     *)
(* Names never contain "/", so a Name is a single segment.                 *)
(*                                                                         *)
(* The file system is the variable files: a function from the (cleaned)    *)
(* paths that the program has read so far to what it found there.  A path  *)
(* is given its content the first time the program looks at it and keeps   *)
(* it from then on (the traversal never writes a file).                    *)
(***************************************************************************)
EXTENDS Naturals, Sequences, FiniteSets, TLC

\* ------------------------------------------------------------------ bounds
\* Number of subcomponent declarations in one descriptor.
MaxSubs == 2
\* Size of the disk content: the subcomponent declarations of all descriptors
\* plus the overlay files (config/<env>.json, config/common.json) present.
MaxDisk == 3
\* Loop iterations after which a (cyclic) traversal is no longer followed.
MaxVisits == 7
\* Length of the Subcomponents list handed to Install.
MaxInstall == 2
\* Number of calls of RelativePathTo on one receiver.
MaxCalls == 2
\* Number of callback invocations of one traversal that write to the component.
MaxWrites == 1

\* ------------------------------------------------------------ input alphabets
Src == "https://example/web.git"
StartingPaths == {<<"", "r">>}
Environments == {"production"}

\* A subcomponent declaration as json.Unmarshal leaves it in Subcomponents.
Decl(name, source, method) == [Name |-> name, Source |-> source, Method |-> method]

\* The declarations the descriptors on disk are made of: fetched with git,
\* a plain subdirectory, inline with and without Method "git", and a sourced
\* declaration named ".", which resolves to its parent's own directory.
Decls ==
  {Decl("a", Src, "git"), Decl("b", Src, ""), Decl("a", "", "git"),
   Decl("b", "", ""), Decl(".", Src, "")}

Min(m, n) == IF m < n THEN m ELSE n

SeqsUpTo(S, n) == UNION {[1..k -> S] : k \in 0..n}

\* ------------------------------------------------------------------- paths
RECURSIVE CleanSegs(_, _, _, _)
CleanSegs(segs, i, out, rooted) ==
  IF i > Len(segs) THEN out
  ELSE LET s == segs[i] IN
       IF s = "" \/ s = "." THEN CleanSegs(segs, i + 1, out, rooted)
       ELSE IF s = ".."
            THEN IF Len(out) > 0 /\ out[Len(out)] # ".."
                 THEN CleanSegs(segs, i + 1, SubSeq(out, 1, Len(out) - 1), rooted)
                 ELSE IF rooted THEN CleanSegs(segs, i + 1, out, rooted)
                      ELSE CleanSegs(segs, i + 1, Append(out, ".."), rooted)
            ELSE CleanSegs(segs, i + 1, Append(out, s), rooted)

\* path.Clean: the shortest equivalent path; "." for the empty result.
Clean(p) ==
  LET rooted == Len(p) > 1 /\ p[1] = ""
      out == CleanSegs(p, 1, <<>>, rooted)
  IN IF rooted THEN <<"">> \o (IF out = <<>> THEN <<"">> ELSE out)
     ELSE IF out = <<>> THEN <<".">> ELSE out

RECURSIVE Flatten(_)
Flatten(elems) ==
  IF elems = <<>> THEN <<>> ELSE Head(elems) \o Flatten(Tail(elems))

\* path.Join: empty elements are ignored, the rest is joined with "/" and
\* cleaned; the join of nothing but empty elements is the empty string.
JoinAll(elems) ==
  LET ne == SelectSeq(elems, LAMBDA e : e # <<"">>)
  IN IF ne = <<>> THEN <<"">> ELSE Clean(Flatten(ne))

Join(a, b) == JoinAll(<<a, b>>)

\* RelativePathTo with the test for a Source first.
RelativePathSourceFirst(c) ==
  IF c.Source = "" THEN <<".", "">>
  ELSE IF c.Method = "git" THEN <<"components", c.Name>>
  ELSE <<c.Name>>

RelativePathTo(c) ==
  IF c.Method = "git" THEN <<"components", c.Name>>
  ELSE IF c.Source # "" THEN <<c.Name>>
  ELSE <<".", "">>

\* ----------------------------------------------------------- configuration
\* ComponentConfig: own settings and the overrides for named children.
EmptyConfig == [Config |-> <<>>, Subcomponents |-> <<>>]

\* ComponentConfig.Merge(overlay): what the receiver holds afterwards.  The
\* receiver's own values are kept, the overlay fills what is missing.
RECURSIVE Merge(_, _)
Merge(target, overlay) ==
  [Config |->
     [k \in DOMAIN target.Config \cup DOMAIN overlay.Config |->
        IF k \in DOMAIN target.Config THEN target.Config[k] ELSE overlay.Config[k]],
   Subcomponents |->
     [n \in DOMAIN target.Subcomponents \cup DOMAIN overlay.Subcomponents |->
        IF n \notin DOMAIN overlay.Subcomponents THEN target.Subcomponents[n]
        ELSE IF n \notin DOMAIN target.Subcomponents THEN overlay.Subcomponents[n]
        ELSE Merge(target.Subcomponents[n], overlay.Subcomponents[n])]]

\* Go's map index: the zero value when the key is absent.
SubcomponentConfig(config, name) ==
  IF name \in DOMAIN config.Subcomponents THEN config.Subcomponents[name]
  ELSE EmptyConfig

\* ------------------------------------------------------------- file system
\* What a path holds: kind is "missing" (os.IsNotExist), "unreadable"
\* (ReadFile fails), "malformed" (json.Unmarshal fails), "component" (a
\* component.json) or "config" (an overlay file).  Of a descriptor's fields
\* only Name, Subcomponents and Config are kept: its own Source and Method
\* and the fields Generator, Repo, Path and Manifest are read by no code.
NoFile(kind) ==
  [kind |-> kind, Name |-> "", Subcomponents |-> <<>>, Config |-> EmptyConfig]

ConfigChoices == {EmptyConfig}
DescriptorNames == {"app"}

DeclCount(fs) ==
  LET RECURSIVE Sum(_)
      Sum(P) == IF P = {} THEN 0
                ELSE LET p == CHOOSE q \in P : TRUE
                     IN Len(fs[p].Subcomponents) + Sum(P \ {p})
  IN Sum(DOMAIN fs)

OverlayCount(fs) ==
  Cardinality({p \in DOMAIN fs :
                 p[Len(p)] # "component.json" /\ fs[p].kind # "missing"})

DiskSize(fs) == DeclCount(fs) + OverlayCount(fs)

\* The contents a component.json not looked at before may turn out to have.
ComponentFileChoices(fs) ==
  {NoFile("missing"), NoFile("unreadable"), NoFile("malformed")}
  \cup [kind : {"component"}, Name : DescriptorNames,
        Subcomponents : SeqsUpTo(Decls, Min(MaxSubs, MaxDisk - DiskSize(fs))),
        Config : ConfigChoices]

\* The contents an overlay file not looked at before may turn out to have.
OverlayFileChoices(fs) ==
  {NoFile("missing")}
  \cup IF DiskSize(fs) >= MaxDisk THEN {}
       ELSE {NoFile("unreadable"), NoFile("malformed")}
            \cup [kind : {"config"}, Name : {""}, Subcomponents : {<<>>},
                  Config : ConfigChoices]

\* A path keeps the content it was found to have.
Found(fs, p, choices) == IF p \in DOMAIN fs THEN {fs[p]} ELSE choices

\* --------------------------------------------------------------- Component
NewComponent(name, physicalPath, logicalPath, config) ==
  [Name |-> name, Source |-> "", Method |-> "", Subcomponents |-> <<>>,
   PhysicalPath |-> physicalPath, LogicalPath |-> logicalPath,
   Config |-> config]

ComponentJSONPath(c) == Join(c.PhysicalPath, <<"component.json">>)

\* LoadComponent that takes a descriptor it cannot parse for an empty one.
LoadComponentLenient(c, fs) ==
  LET f == fs[ComponentJSONPath(c)]
  IN IF f.kind = "missing" THEN [err |-> "NotFound", component |-> c]
     ELSE IF f.kind = "unreadable" THEN [err |-> "IOError", component |-> c]
     ELSE [err |-> "nil",
           component |->
             [Name |-> f.Name, Source |-> "", Method |-> "",
              Subcomponents |-> f.Subcomponents,
              PhysicalPath |-> c.PhysicalPath,
              LogicalPath |-> c.LogicalPath,
              Config |-> Merge(f.Config, c.Config)]]

\* LoadComponent: [err, component]; component is meaningful when err = "nil".
LoadComponent(c, fs) ==
  LET f == fs[ComponentJSONPath(c)]
  IN IF f.kind = "missing" THEN [err |-> "NotFound", component |-> c]
     ELSE IF f.kind = "unreadable" THEN [err |-> "IOError", component |-> c]
     ELSE IF f.kind # "component" THEN [err |-> "ParseError", component |-> c]
     ELSE [err |-> "nil",
           component |->
             [Name |-> f.Name, Source |-> "", Method |-> "",
              Subcomponents |-> f.Subcomponents,
              PhysicalPath |-> c.PhysicalPath,
              LogicalPath |-> c.LogicalPath,
              Config |-> Merge(f.Config, c.Config)]]

\* MergeConfigFile: [err, component, merged]; merged tells whether
\* c.Config.Merge was reached.
MergeConfigFile(c, path, fs) ==
  LET f == fs[path]
  IN IF f.kind = "missing" THEN [err |-> "nil", component |-> c, merged |-> FALSE]
     ELSE IF f.kind = "unreadable"
          THEN [err |-> "IOError", component |-> c, merged |-> FALSE]
     ELSE IF f.kind # "config"
          THEN [err |-> "ParseError", component |-> c, merged |-> FALSE]
     ELSE [err |-> "nil",
           component |-> [c EXCEPT !.Config = Merge(c.Config, f.Config)],
           merged |-> TRUE]

EnvironmentConfigPath(c, env) ==
  JoinAll(<<c.PhysicalPath, <<"config">>, <<env \o ".json">> >>)

CommonPath(c) == JoinAll(<<c.PhysicalPath, <<"config">>, <<"common.json">> >>)

\* LoadConfig with the common overlay before the environment overlay.
LoadConfigCommonFirst(c, env, fs) ==
  LET r1 == MergeConfigFile(c, CommonPath(c), fs)
  IN IF r1.err # "nil"
     THEN [err |-> r1.err, component |-> r1.component, merges |-> <<>>]
     ELSE LET r2 == MergeConfigFile(r1.component,
                                    EnvironmentConfigPath(r1.component, env), fs)
              m1 == IF r1.merged THEN <<"common">> ELSE <<>>
              m2 == IF r2.merged THEN <<"environment">> ELSE <<>>
          IN [err |-> r2.err, component |-> r2.component, merges |-> m1 \o m2]

\* LoadConfig: [err, component, merges]; merges lists the overlays merged,
\* in the order of the merges.
LoadConfig(c, env, fs) ==
  LET r1 == MergeConfigFile(c, EnvironmentConfigPath(c, env), fs)
  IN IF r1.err # "nil"
     THEN [err |-> r1.err, component |-> r1.component, merges |-> <<>>]
     ELSE LET r2 == MergeConfigFile(r1.component, CommonPath(r1.component), fs)
              m1 == IF r1.merged THEN <<"environment">> ELSE <<>>
              m2 == IF r2.merged THEN <<"common">> ELSE <<>>
          IN [err |-> r2.err, component |-> r2.component, merges |-> m1 \o m2]

\* ------------------------------------------------------------------- state
VARIABLES
  startingPath,         \* IterateComponentTree's startingPath argument
  environment,          \* IterateComponentTree's environment argument
  files,                \* the file system, as far as it is known
  queue,                \* the local queue
  completedComponents,  \* the local completedComponents
  pc,                   \* "loop" inside the for loop, "returned" afterwards
  result,               \* the returned completedComponents (<<>> for nil)
  err,                  \* the returned err ("nil" for nil)
  trace,                \* history: what the traversal did, in order
  qmeta,                \* history: for each queued stub, its depth and the
                        \* component.json paths of its ancestors
  pathArg,              \* RelativePathTo: the receiver c
  pathOrig,             \* history: the receiver as it was before the calls
  pathResults,          \* history: the results of the calls so far
  installArg,           \* Install: the receiver c
  installPath,          \* Install: the componentPath argument
  installPc,            \* "called" or "returned"
  installErr,           \* Install's result ("nil" for nil)
  commands              \* history: the commands Install has run, in order

traversalVars == <<startingPath, environment, files, queue,
                   completedComponents, pc, result, err, trace, qmeta>>
pathVars == <<pathArg, pathOrig, pathResults>>
installVars == <<installArg, installPath, installPc, installErr, commands>>
vars == <<traversalVars, pathVars, installVars>>

Event(op, c) ==
  [op |-> op, PhysicalPath |-> c.PhysicalPath, LogicalPath |-> c.LogicalPath,
   Config |-> c.Config]

\* ComponentToQueue that takes every subcomponent for a plain subdirectory.
ComponentToQueueFlat(component, subcomponent) ==
  NewComponent(subcomponent.Name,
               Join(component.PhysicalPath, <<subcomponent.Name>>),
               Join(component.LogicalPath, <<subcomponent.Name>>),
               SubcomponentConfig(component.Config, subcomponent.Name))

\* ComponentToQueue that copies Source and Method of the declaration.
ComponentToQueueWithSource(component, subcomponent) ==
  [Name |-> subcomponent.Name, Source |-> subcomponent.Source,
   Method |-> subcomponent.Method, Subcomponents |-> <<>>,
   PhysicalPath |-> Join(component.PhysicalPath, RelativePathTo(subcomponent)),
   LogicalPath |-> Join(component.LogicalPath, <<subcomponent.Name>>),
   Config |-> SubcomponentConfig(component.Config, subcomponent.Name)]

\* The stub built for the i-th declaration of component (lines 174-179).
ComponentToQueue(component, subcomponent) ==
  NewComponent(subcomponent.Name,
               Join(component.PhysicalPath, RelativePathTo(subcomponent)),
               Join(component.LogicalPath, <<subcomponent.Name>>),
               SubcomponentConfig(component.Config, subcomponent.Name))

\* Enqueue without the test for an inline subcomponent.
RECURSIVE EnqueueAll(_, _, _)
EnqueueAll(component, i, q) ==
  IF i > Len(component.Subcomponents) THEN q
  ELSE EnqueueAll(component, i + 1,
                  Append(q, ComponentToQueue(component, component.Subcomponents[i])))

\* Enqueue with the children pushed at the front of the queue (a stack).
RECURSIVE EnqueueFront(_, _, _)
EnqueueFront(component, i, q) ==
  IF i > Len(component.Subcomponents) THEN q
  ELSE LET subcomponent == component.Subcomponents[i]
           rest == EnqueueFront(component, i + 1, q)
       IN IF subcomponent.Source = "" THEN rest
          ELSE <<ComponentToQueue(component, subcomponent)>> \o rest

\* Enqueue with a cycle guard: a declaration that resolves to the directory
\* of the component that declares it is not queued.
RECURSIVE EnqueueGuarded(_, _, _)
EnqueueGuarded(component, i, q) ==
  IF i > Len(component.Subcomponents) THEN q
  ELSE LET subcomponent == component.Subcomponents[i]
           componentToQueue == ComponentToQueue(component, subcomponent)
       IN IF subcomponent.Source = ""
             \/ ComponentJSONPath(componentToQueue) = ComponentJSONPath(component)
          THEN EnqueueGuarded(component, i + 1, q)
          ELSE EnqueueGuarded(component, i + 1, Append(q, componentToQueue))

\* The inner for loop (lines 168-183): q after the declarations from the
\* i-th on have been looked at.
RECURSIVE Enqueue(_, _, _)
Enqueue(component, i, q) ==
  IF i > Len(component.Subcomponents) THEN q
  ELSE LET subcomponent == component.Subcomponents[i]
       IN IF subcomponent.Source = ""
          THEN Enqueue(component, i + 1, q)
          ELSE Enqueue(component, i + 1,
                       Append(q, ComponentToQueue(component, subcomponent)))

\* Resolve with the component handed on as LoadComponent returned it: the
\* callback is dispatched before the overlays are applied.
ResolveBeforeOverlays(stub, cf, ef, ofile) ==
  LET fs1 == files @@ (ComponentJSONPath(stub) :> cf)
      r1 == LoadComponent(stub, fs1)
      fs2 == fs1 @@ (EnvironmentConfigPath(stub, environment) :> ef)
      envErr == MergeConfigFile(r1.component,
                                EnvironmentConfigPath(stub, environment), fs2).err
      fs3 == fs2 @@ (CommonPath(stub) :> ofile)
      r2 == LoadConfig(r1.component, environment, fs3)
  IN IF r1.err # "nil"
     THEN [stage |-> "LoadComponent", err |-> r1.err, fs |-> fs1,
           component |-> stub, merges |-> <<>>]
     ELSE IF r2.err # "nil"
     THEN [stage |-> "LoadConfig", err |-> r2.err,
           fs |-> IF envErr # "nil" THEN fs2 ELSE fs3,
           component |-> r2.component, merges |-> r2.merges]
     ELSE [stage |-> "ok", err |-> "nil", fs |-> fs3,
           component |-> r1.component, merges |-> r2.merges]

\* AppendCompleted with the component put in front.
PrependCompleted(completed, component) == <<component>> \o completed

\* completedComponents = append(completedComponents, component) (line 166)
AppendCompleted(completed, component) == Append(completed, component)

\* What one loop iteration finds for the stub at the head of the queue, when
\* the files it looks at hold cf (component.json), ef (environment overlay)
\* and of (common overlay).
Resolve(stub, cf, ef, ofile) ==
  LET fs1 == files @@ (ComponentJSONPath(stub) :> cf)
      r1 == LoadComponent(stub, fs1)
      fs2 == fs1 @@ (EnvironmentConfigPath(stub, environment) :> ef)
      envErr == MergeConfigFile(r1.component,
                                EnvironmentConfigPath(stub, environment), fs2).err
      fs3 == fs2 @@ (CommonPath(stub) :> ofile)
      r2 == LoadConfig(r1.component, environment, fs3)
  IN IF r1.err # "nil"
     THEN [stage |-> "LoadComponent", err |-> r1.err, fs |-> fs1,
           component |-> stub, merges |-> <<>>]
     ELSE IF r2.err # "nil"
     THEN [stage |-> "LoadConfig", err |-> r2.err,
           fs |-> IF envErr # "nil" THEN fs2 ELSE fs3,
           component |-> r2.component, merges |-> r2.merges]
     ELSE [stage |-> "ok", err |-> "nil", fs |-> fs3,
           component |-> r2.component, merges |-> r2.merges]

MergeEvents(o) ==
  [i \in 1..Len(o.merges) |-> Event(o.merges[i], o.component)]

\* Abort that takes back the callbacks dispatched so far.
AbortUndoes(e, fs, events) ==
  /\ pc' = "returned"
  /\ err' = e
  /\ result' = <<>>
  /\ files' = fs
  /\ queue' = Tail(queue)
  /\ qmeta' = Tail(qmeta)
  /\ trace' = SelectSeq(trace \o events, LAMBDA ev : ev.op # "callback")
  /\ UNCHANGED <<startingPath, environment, completedComponents>>
  /\ UNCHANGED <<pathVars, installVars>>

\* Abort returning what has been completed so far instead of nil.
AbortPartial(e, fs, events) ==
  /\ pc' = "returned"
  /\ err' = e
  /\ result' = completedComponents
  /\ files' = fs
  /\ queue' = Tail(queue)
  /\ qmeta' = Tail(qmeta)
  /\ trace' = trace \o events
  /\ UNCHANGED <<startingPath, environment, completedComponents>>
  /\ UNCHANGED <<pathVars, installVars>>

\* Abort that records the error but stays in the loop.
AbortContinues(e, fs, events) ==
  /\ pc' = "loop"
  /\ err' = e
  /\ result' = <<>>
  /\ files' = fs
  /\ queue' = Tail(queue)
  /\ qmeta' = Tail(qmeta)
  /\ trace' = trace \o events
  /\ UNCHANGED <<startingPath, environment, completedComponents>>
  /\ UNCHANGED <<pathVars, installVars>>

\* return nil, err (lines 155, 159, 163)
Abort(e, fs, events) ==
  /\ pc' = "returned"
  /\ err' = e
  /\ result' = <<>>
  /\ files' = fs
  /\ queue' = Tail(queue)
  /\ qmeta' = Tail(qmeta)
  /\ trace' = trace \o events
  /\ UNCHANGED <<startingPath, environment, completedComponents>>
  /\ UNCHANGED <<pathVars, installVars>>

\* The loop condition taken for len(queue) > 1.
LoopConditionMoreThanOne == Len(queue) > 1

\* for len(queue) != 0 (line 149)
LoopCondition == queue # <<>>

Iterating ==
  /\ pc = "loop"
  /\ LoopCondition
  /\ Len(completedComponents) < MaxVisits

\* No call of RelativePathTo and no call of Install is under way.
NoPathCall ==
  /\ pathArg = Decl("", "", "")
  /\ pathOrig = pathArg
  /\ pathResults = <<>>

NoInstallCall ==
  /\ installArg = NewComponent("", <<"">>, <<"">>, EmptyConfig)
  /\ installPath = <<"">>
  /\ installPc = "idle"
  /\ installErr = "nil"
  /\ commands = <<>>

NoTraversal ==
  /\ startingPath = <<"">>
  /\ environment = ""
  /\ files = <<>>
  /\ queue = <<>>
  /\ completedComponents = <<>>
  /\ pc = "idle"
  /\ result = <<>>
  /\ err = "nil"
  /\ trace = <<>>
  /\ qmeta = <<>>

Init ==
  /\ NoPathCall
  /\ NoInstallCall
  /\ startingPath \in StartingPaths
  /\ environment \in Environments
  /\ files = <<>>
  /\ queue = <<NewComponent("", startingPath, <<".", "">>, EmptyConfig)>>
  /\ completedComponents = <<>>
  /\ pc = "loop"
  /\ result = <<>>
  /\ err = "nil"
  /\ trace = <<>>
  /\ qmeta = <<[depth |-> 0, chain |-> <<>>]>>

\* One iteration in which LoadComponent fails (lines 150-156).
LoadComponentFails ==
  /\ Iterating
  /\ LET stub == Head(queue)
     IN \E cf \in Found(files, ComponentJSONPath(stub), ComponentFileChoices(files)) :
          \E o \in {Resolve(stub, cf, NoFile("missing"), NoFile("missing"))} :
             /\ o.stage = "LoadComponent"
             /\ Abort(o.err, o.fs, <<Event("dequeue", stub), Event("load", stub)>>)

\* The events of an iteration up to and including LoadConfig.
LoadEvents(stub, o) ==
  <<Event("dequeue", stub), Event("load", stub), Event("loadConfig", o.component)>>
  \o MergeEvents(o)

\* One iteration in which LoadConfig fails (lines 150-160).
LoadConfigFails ==
  /\ Iterating
  /\ LET stub == Head(queue)
         fs0 == files
     IN \E cf \in Found(fs0, ComponentJSONPath(stub), ComponentFileChoices(fs0)) :
          LET fs1 == fs0 @@ (ComponentJSONPath(stub) :> cf)
          IN /\ LoadComponent(stub, fs1).err = "nil"
             /\ \E ef \in Found(fs1, EnvironmentConfigPath(stub, environment),
                             OverlayFileChoices(fs1)) :
               LET fs2 == fs1 @@ (EnvironmentConfigPath(stub, environment) :> ef)
               IN \E ofile \in Found(fs2, CommonPath(stub), OverlayFileChoices(fs2)) :
                    \E o \in {Resolve(stub, cf, ef, ofile)} :
                       /\ o.stage = "LoadConfig"
                       /\ Abort(o.err, o.fs, LoadEvents(stub, o))

\* One iteration in which the callback returns an error (lines 150-164).
CallbackFails ==
  /\ Iterating
  /\ LET stub == Head(queue)
         fs0 == files
     IN \E cf \in Found(fs0, ComponentJSONPath(stub), ComponentFileChoices(fs0)) :
          LET fs1 == fs0 @@ (ComponentJSONPath(stub) :> cf)
          IN /\ LoadComponent(stub, fs1).err = "nil"
             /\ \E ef \in Found(fs1, EnvironmentConfigPath(stub, environment),
                             OverlayFileChoices(fs1)) :
               LET fs2 == fs1 @@ (EnvironmentConfigPath(stub, environment) :> ef)
               IN \E ofile \in Found(fs2, CommonPath(stub), OverlayFileChoices(fs2)) :
                    \E o \in {Resolve(stub, cf, ef, ofile)} :
                       /\ o.stage = "ok"
                       /\ Abort("CallbackError", o.fs,
                                LoadEvents(stub, o)
                                \o <<Event("callback", o.component)>>)

EnqueueEvents(component, q0, q1) ==
  [i \in 1..(Len(q1) - Len(q0)) |-> Event("enqueue", q1[Len(q0) + i])]

\* One complete iteration (lines 150-183): the stub is loaded, overlaid,
\* dispatched, appended and its sourced subcomponents are queued.  The
\* callback is an input: it returns nil here and an error in CallbackFails;
\* the callbacks considered do not write through the pointer they are given.
Iterate ==
  /\ Iterating
  /\ LET stub == Head(queue)
         meta == Head(qmeta)
         fs0 == files
     IN \E cf \in Found(fs0, ComponentJSONPath(stub), ComponentFileChoices(fs0)) :
          LET fs1 == fs0 @@ (ComponentJSONPath(stub) :> cf)
          IN /\ LoadComponent(stub, fs1).err = "nil"
             /\ \E ef \in Found(fs1, EnvironmentConfigPath(stub, environment),
                             OverlayFileChoices(fs1)) :
               LET fs2 == fs1 @@ (EnvironmentConfigPath(stub, environment) :> ef)
               IN \E ofile \in Found(fs2, CommonPath(stub), OverlayFileChoices(fs2)) :
                    \E o \in {Resolve(stub, cf, ef, ofile)} :
                    \E component \in {o.component} :
                    \E q1 \in {Enqueue(component, 1, Tail(queue))} :
                    LET childMeta == [depth |-> meta.depth + 1,
                                      chain |-> Append(meta.chain,
                                                       ComponentJSONPath(stub))]
                    IN /\ o.stage = "ok"
                       /\ files' = o.fs
                       /\ completedComponents' = AppendCompleted(completedComponents, component)
                       /\ queue' = q1
                       /\ qmeta' = Tail(qmeta)
                                   \o [i \in 1..(Len(q1) - Len(queue) + 1) |-> childMeta]
                       /\ trace' = trace \o LoadEvents(stub, o)
                                   \o <<Event("callback", component),
                                        Event("append", component)>>
                                   \o EnqueueEvents(component, Tail(queue), q1)
                       /\ UNCHANGED <<startingPath, environment, pc, result, err>>
                       /\ UNCHANGED <<pathVars, installVars>>

\* The loop ends with the queue empty (lines 149, 186).
Return ==
  /\ pc = "loop"
  /\ ~LoopCondition
  /\ pc' = "returned"
  /\ result' = completedComponents
  /\ err' = "nil"
  /\ UNCHANGED <<startingPath, environment, files, queue, completedComponents,
                 trace, qmeta>>
  /\ UNCHANGED <<pathVars, installVars>>

Next ==
  \/ LoadComponentFails
  \/ LoadConfigFails
  \/ CallbackFails
  \/ Iterate
  \/ Return

Spec == Init /\ [][Next]_vars

\* A step of the loop is possible: the loop condition is false (the loop
\* ends and the function returns) or the next stub can be processed.  This is
\* ENABLED <<Next>>_vars: whatever the files hold and whatever the callback
\* returns, one of the five steps applies.
CanStep ==
  /\ pc = "loop"
  /\ ~LoopCondition \/ Len(completedComponents) < MaxVisits

\* Every step of Next ends the loop or adds to the trace.
Stepped == pc' # pc \/ Len(trace') > Len(trace)

\* The loop body and the return are straight-line code, and the callback is
\* taken to return: a step that stays possible is eventually taken.  This is
\* WF_vars(Next) with ENABLED <<Next>>_vars written out as CanStep.
Fairness == []<>(~CanStep) \/ []<><<Stepped>>_vars

FairSpec == Init /\ [][Next]_vars /\ Fairness

\* ------------------------------------------- traversal of a configured tree
\* The traversal of a tree whose files are given beforehand and carry
\* settings: a root /r whose descriptor declares the git subcomponent a (and
\* the subdirectory c), with overlay files for the root and for a.
Settings(f) == [Config |-> f, Subcomponents |-> <<>>]

\* The root descriptor's config: an own setting and one to push down to a.
RootConfig ==
  [Config |-> ("k" :> "root"),
   Subcomponents |-> ("a" :> Settings(("k" :> "pushed") @@ ("p" :> "pushed")))]

OwnConfig == Settings("k" :> "own")
EnvironmentOverlay == Settings(("k" :> "env") @@ ("e" :> "env"))
CommonOverlay == Settings(("k" :> "common") @@ ("e" :> "common") @@ ("c" :> "common"))

\* A declaration that carries subcomponent declarations of its own.
NestedDecl(name, source, method) ==
  [Name |-> name, Source |-> source, Method |-> method,
   Subcomponents |-> <<Decl("n", Src, "git")>>]

Descriptor(subcomponents, config) ==
  [kind |-> "component", Name |-> "app", Subcomponents |-> subcomponents,
   Config |-> config]

ConfigFile(config) ==
  [kind |-> "config", Name |-> "", Subcomponents |-> <<>>, Config |-> config]

\* The files of the tree: the root's descriptor and overlays (rc, re, ro),
\* those of a (ac, ae, ao) and those of c (a descriptor, no overlays).
Disk(rc, re, ro, ac, ae, ao) ==
  (<<"", "r", "component.json">> :> rc)
  @@ (<<"", "r", "config", "production.json">> :> re)
  @@ (<<"", "r", "config", "common.json">> :> ro)
  @@ (<<"", "r", "components", "a", "component.json">> :> ac)
  @@ (<<"", "r", "components", "a", "config", "production.json">> :> ae)
  @@ (<<"", "r", "components", "a", "config", "common.json">> :> ao)
  @@ (<<"", "r", "c", "component.json">> :> Descriptor(<<>>, EmptyConfig))
  @@ (<<"", "r", "c", "config", "production.json">> :> NoFile("missing"))
  @@ (<<"", "r", "c", "config", "common.json">> :> NoFile("missing"))

ConfiguredDisks ==
  {Disk(Descriptor(subs, config), re, ro, ac, ae, ao) :
     subs \in {<<NestedDecl("a", Src, "git")>>,
               <<Decl("c", Src, ""), NestedDecl("a", Src, "git")>>},
     config \in {EmptyConfig, RootConfig},
     re \in {NoFile("missing"), NoFile("unreadable"), NoFile("malformed"),
             ConfigFile(EnvironmentOverlay)},
     ro \in {NoFile("missing"), NoFile("malformed"), ConfigFile(CommonOverlay)},
     ac \in {NoFile("missing"), Descriptor(<<>>, EmptyConfig),
             Descriptor(<<>>, OwnConfig)},
     ae \in {NoFile("missing"), ConfigFile(EnvironmentOverlay)},
     ao \in {NoFile("missing"), ConfigFile(CommonOverlay)}}

InitConfigured ==
  /\ NoPathCall
  /\ NoInstallCall
  /\ startingPath = <<"", "r">>
  /\ environment = "production"
  /\ files \in ConfiguredDisks
  /\ queue = <<NewComponent("", startingPath, <<".", "">>, EmptyConfig)>>
  /\ completedComponents = <<>>
  /\ pc = "loop"
  /\ result = <<>>
  /\ err = "nil"
  /\ trace = <<>>
  /\ qmeta = <<[depth |-> 0, chain |-> <<>>]>>

SpecConfigured == InitConfigured /\ [][Next]_vars

\* ------------------------------------------------ traversal of a cyclic tree
\* A directory with a descriptor and no overlays, but for the environment
\* overlay re.
Directory(dir, subcomponents, re) ==
  (Join(dir, <<"component.json">>) :> Descriptor(subcomponents, EmptyConfig))
  @@ (JoinAll(<<dir, <<"config">>, <<"production.json">> >>) :> re)
  @@ (JoinAll(<<dir, <<"config">>, <<"common.json">> >>) :> NoFile("missing"))

\* Trees in which a sourced declaration resolves to the directory of the
\* component that declares it (Name ".") or to that of its parent (Name
\* ".." in the subdirectory b), next to a tree without a cycle.  What the
\* git subcomponent a holds is not given beforehand.
CyclicDisks ==
  LET root == <<"", "r">>
      b == <<"", "r", "b">>
      self == Decl(".", Src, "")
      up == Decl("..", Src, "")
      down == Decl("b", Src, "")
      git == Decl("a", Src, "git")
  IN {Directory(root, subs, re) : subs \in {<<self>>, <<git, self>>},
                                  re \in {NoFile("missing"), NoFile("malformed")}}
     \cup {Directory(root, subs, NoFile("missing")) @@ Directory(b, bsubs, re) :
             subs \in {<<down>>, <<down, git>>},
             bsubs \in {<<up>>, <<self>>, <<>>},
             re \in {NoFile("missing"), NoFile("unreadable")}}

InitCyclic ==
  /\ NoPathCall
  /\ NoInstallCall
  /\ startingPath = <<"", "r">>
  /\ environment = "production"
  /\ files \in CyclicDisks
  /\ queue = <<NewComponent("", startingPath, <<".", "">>, EmptyConfig)>>
  /\ completedComponents = <<>>
  /\ pc = "loop"
  /\ result = <<>>
  /\ err = "nil"
  /\ trace = <<>>
  /\ qmeta = <<[depth |-> 0, chain |-> <<>>]>>

SpecCyclic == InitCyclic /\ [][Next]_vars

\* ------------------------------------------ traversal with a writing callback
\* What a callback may do to the component it is given a pointer to.
CallbackWrites ==
  {"addSubcomponent", "dropSubcomponents", "setPhysicalPath", "setLogicalPath",
   "setConfig"}

\* The component as the callback cb leaves it.
Callback(cb, c) ==
  CASE cb = "addSubcomponent" ->
         [c EXCEPT !.Subcomponents = Append(@, Decl("x", Src, "git"))]
    [] cb = "dropSubcomponents" -> [c EXCEPT !.Subcomponents = <<>>]
    [] cb = "setPhysicalPath" -> [c EXCEPT !.PhysicalPath = <<"", "r", "c">>]
    [] cb = "setLogicalPath" -> [c EXCEPT !.LogicalPath = <<"l">>]
    [] cb = "setConfig" ->
         [c EXCEPT !.Config =
            [Config |-> <<>>,
             Subcomponents |-> ("a" :> Settings("k" :> "callback"))]]
    [] OTHER -> c

\* Dispatched with the callback given a copy of the component.
DispatchedByValue(cb, c) == c

\* componentIteration(component.PhysicalPath, &component) (line 162): the
\* local component after a call that returned nil.
Dispatched(cb, c) == Callback(cb, c)

\* The disks on which the root declares c and a and pushes a config down to
\* a, a has both overlays and the root has none, but for an environment
\* overlay that does not parse.
CallbackDisks ==
  {Disk(Descriptor(<<Decl("c", Src, ""), NestedDecl("a", Src, "git")>>, RootConfig),
        re, NoFile("missing"), ac,
        ConfigFile(EnvironmentOverlay), ConfigFile(CommonOverlay)) :
     re \in {NoFile("missing"), NoFile("malformed")},
     ac \in {NoFile("missing"), Descriptor(<<>>, EmptyConfig),
             Descriptor(<<>>, OwnConfig)}}

InitCallback ==
  /\ NoPathCall
  /\ NoInstallCall
  /\ startingPath = <<"", "r">>
  /\ environment = "production"
  /\ files \in CallbackDisks
  /\ queue = <<NewComponent("", startingPath, <<".", "">>, EmptyConfig)>>
  /\ completedComponents = <<>>
  /\ pc = "loop"
  /\ result = <<>>
  /\ err = "nil"
  /\ trace = <<>>
  /\ qmeta = <<[depth |-> 0, chain |-> <<>>]>>

\* One complete iteration (lines 150-183) in which the callback writes
\* through the pointer it is given and returns nil.
IterateCallbackWrites ==
  /\ Iterating
  /\ Len(SelectSeq(trace, LAMBDA e : e.op \in CallbackWrites)) < MaxWrites
  /\ LET stub == Head(queue)
         meta == Head(qmeta)
         fs0 == files
     IN \E cf \in Found(fs0, ComponentJSONPath(stub), ComponentFileChoices(fs0)) :
          LET fs1 == fs0 @@ (ComponentJSONPath(stub) :> cf)
          IN /\ LoadComponent(stub, fs1).err = "nil"
             /\ \E ef \in Found(fs1, EnvironmentConfigPath(stub, environment),
                             OverlayFileChoices(fs1)) :
               LET fs2 == fs1 @@ (EnvironmentConfigPath(stub, environment) :> ef)
               IN \E ofile \in Found(fs2, CommonPath(stub), OverlayFileChoices(fs2)) :
                    \E cb \in CallbackWrites :
                    \E o \in {Resolve(stub, cf, ef, ofile)} :
                    \E component \in {Dispatched(cb, o.component)} :
                    \E q1 \in {Enqueue(component, 1, Tail(queue))} :
                    LET childMeta == [depth |-> meta.depth + 1,
                                      chain |-> Append(meta.chain,
                                                       ComponentJSONPath(stub))]
                    IN /\ o.stage = "ok"
                       /\ files' = o.fs
                       /\ completedComponents' = AppendCompleted(completedComponents, component)
                       /\ queue' = q1
                       /\ qmeta' = Tail(qmeta)
                                   \o [i \in 1..(Len(q1) - Len(queue) + 1) |-> childMeta]
                       /\ trace' = trace \o LoadEvents(stub, o)
                                   \o <<Event("callback", o.component),
                                        Event(cb, component),
                                        Event("append", component)>>
                                   \o EnqueueEvents(component, Tail(queue), q1)
                       /\ UNCHANGED <<startingPath, environment, pc, result, err>>
                       /\ UNCHANGED <<pathVars, installVars>>

NextCallback ==
  \/ LoadComponentFails
  \/ LoadConfigFails
  \/ CallbackFails
  \/ Iterate
  \/ IterateCallbackWrites
  \/ Return

SpecCallback == InitCallback /\ [][NextCallback]_vars

\* ---------------------------------------------------------- RelativePathTo
\* The receivers RelativePathTo is called on.
PathNames == {"db", "cache", "assets", "a", ".", ""}
PathSources == {"", "http://x", Src}
PathMethods == {"git", "", "helm"}
PathArgs == [Name : PathNames, Source : PathSources, Method : PathMethods]

InitPath ==
  /\ NoTraversal
  /\ NoInstallCall
  /\ pathArg \in PathArgs
  /\ pathOrig = pathArg
  /\ pathResults = <<>>

\* c.RelativePathTo() is called; the method assigns to no field of c.
CallRelativePathTo ==
  /\ Len(pathResults) < MaxCalls
  /\ pathResults' = Append(pathResults, RelativePathTo(pathArg))
  /\ UNCHANGED <<pathArg, pathOrig, traversalVars, installVars>>

NextPath == CallRelativePathTo

SpecPath == InitPath /\ [][NextPath]_vars

\* ----------------------------------------------------------------- Install
\* The declarations of the component Install is called on; a declaration may
\* carry subcomponent declarations of its own.
InstallDecls ==
  [Name : {"a", "b"}, Source : {"", Src}, Method : {"git", ""},
   Subcomponents : {<<>>, <<Decl("c", Src, "git")>>}]

Command(cmd, source, target, i, failed) ==
  [cmd |-> cmd, source |-> source, target |-> target, sub |-> i,
   failed |-> failed]

\* Install with the clone before the removal.
RECURSIVE InstallCloneFirst(_, _, _, _, _)
InstallCloneFirst(c, componentPath, i, log, failAt) ==
  IF i > Len(c.Subcomponents) THEN [err |-> "nil", log |-> log]
  ELSE LET subcomponent == c.Subcomponents[i]
           n == Len(log)
           componentsPath == componentPath \o <<"components">>
           subcomponentPath == Join(componentPath, RelativePathTo(subcomponent))
           mkdir == Command("mkdir", "", componentsPath, i, failAt = n + 1)
           clone == Command("clone", subcomponent.Source, subcomponentPath, i,
                            failAt = n + 2)
           rm == Command("rm", "", subcomponentPath, i, failAt = n + 3)
       IN IF subcomponent.Method # "git"
          THEN InstallCloneFirst(c, componentPath, i + 1, log, failAt)
          ELSE IF mkdir.failed
          THEN [err |-> "InstallError", log |-> log \o <<mkdir>>]
          ELSE IF clone.failed
          THEN [err |-> "InstallError", log |-> log \o <<mkdir, clone>>]
          ELSE IF rm.failed
          THEN [err |-> "InstallError", log |-> log \o <<mkdir, clone, rm>>]
          ELSE InstallCloneFirst(c, componentPath, i + 1,
                                 log \o <<mkdir, clone, rm>>, failAt)

\* Install (lines 100-121) from the i-th subcomponent on, log being the
\* commands run so far; the failAt-th command that is run fails (none when
\* failAt = 0).  [err, log].
RECURSIVE InstallFrom(_, _, _, _, _)
InstallFrom(c, componentPath, i, log, failAt) ==
  IF i > Len(c.Subcomponents) THEN [err |-> "nil", log |-> log]
  ELSE LET subcomponent == c.Subcomponents[i]
           n == Len(log)
           componentsPath == componentPath \o <<"components">>
           subcomponentPath == Join(componentPath, RelativePathTo(subcomponent))
           mkdir == Command("mkdir", "", componentsPath, i, failAt = n + 1)
           rm == Command("rm", "", subcomponentPath, i, failAt = n + 2)
           clone == Command("clone", subcomponent.Source, subcomponentPath, i,
                            failAt = n + 3)
       IN IF subcomponent.Method # "git"
          THEN InstallFrom(c, componentPath, i + 1, log, failAt)
          ELSE IF mkdir.failed
          THEN [err |-> "InstallError", log |-> log \o <<mkdir>>]
          ELSE IF rm.failed
          THEN [err |-> "InstallError", log |-> log \o <<mkdir, rm>>]
          ELSE IF clone.failed
          THEN [err |-> "InstallError", log |-> log \o <<mkdir, rm, clone>>]
          ELSE InstallFrom(c, componentPath, i + 1,
                           log \o <<mkdir, rm, clone>>, failAt)

\* The directories Install is called on: "/r" and "/r/".
InstallPaths == {<<"", "r">>, <<"", "r", "">>}

\* c.Install(c.PhysicalPath) is called.
InitInstall ==
  /\ NoTraversal
  /\ NoPathCall
  /\ installArg \in
       {[NewComponent("app", physicalPath, <<".", "">>, EmptyConfig)
           EXCEPT !.Subcomponents = subs] :
          physicalPath \in InstallPaths, subs \in SeqsUpTo(InstallDecls, MaxInstall)}
  /\ installPath = installArg.PhysicalPath
  /\ installPc = "called"
  /\ installErr = "nil"
  /\ commands = <<>>

\* c.Install(componentPath) runs to its return; failAt is the command that
\* fails, if any.
InstallReturns(failAt) ==
  /\ LET r == InstallFrom(installArg, installPath, 1, <<>>, failAt)
     IN /\ (failAt = 0) = (r.err = "nil")
        /\ installErr' = r.err
        /\ commands' = r.log
  /\ installPc' = "returned"
  /\ UNCHANGED <<installArg, installPath, traversalVars, pathVars>>

\* Install in which every command succeeds.
Install ==
  /\ installPc = "called"
  /\ InstallReturns(0)

\* Install in which one of the commands fails.
InstallFails ==
  /\ installPc = "called"
  /\ \E failAt \in 1..(3 * MaxInstall) : InstallReturns(failAt)

NextInstall ==
  \/ Install
  \/ InstallFails

SpecInstall == InitInstall /\ [][NextInstall]_vars

\* ---------------------------------------------------------------------------
\* The component tree that the descriptors on disk define, computed from the
\* files alone: a node is a (physical path, logical path) pair, its children
\* are the sourced declarations of the descriptor at its physical path.
Node(physicalPath, logicalPath) ==
  [PhysicalPath |-> physicalPath, LogicalPath |-> logicalPath]

NodeOf(c) == Node(c.PhysicalPath, c.LogicalPath)

RootNode == Node(startingPath, <<".", "">>)

Sourced(decls) == SelectSeq(decls, LAMBDA d : d.Source # "")

NodeChildren(n) ==
  LET ds == Sourced(files[Join(n.PhysicalPath, <<"component.json">>)].Subcomponents)
  IN [i \in 1..Len(ds) |->
        Node(Join(n.PhysicalPath, RelativePathTo(ds[i])),
             Join(n.LogicalPath, <<ds[i].Name>>))]

\* The number of nodes of the subtree at n: n and its non-inline descendants.
RECURSIVE TreeSize(_)
TreeSize(n) ==
  LET kids == NodeChildren(n)
      RECURSIVE Sum(_)
      Sum(i) == IF i > Len(kids) THEN 0 ELSE TreeSize(kids[i]) + Sum(i + 1)
  IN 1 + Sum(1)

\* The nodes level by level, each level in the order of the parents and,
\* under one parent, in declaration order.
RECURSIVE Levels(_)
Levels(level) ==
  IF level = <<>> THEN <<>>
  ELSE level \o Levels(Flatten([i \in 1..Len(level) |-> NodeChildren(level[i])]))

Succeeded == pc = "returned" /\ err = "nil"
Failed == pc = "returned" /\ err # "nil"

\* C1: a traversal in which every load and every callback succeeds returns
\* exactly N+1 entries, N the number of non-inline nodes reachable from the
\* root, in breadth-first order: the root first, level by level, siblings in
\* declaration order.
C1_BreadthFirstComplete ==
  Succeeded =>
    /\ Len(result) = TreeSize(RootNode)
    /\ [i \in 1..Len(result) |-> NodeOf(result[i])] = Levels(<<RootNode>>)

\* A returned sequence in which breadth-first and depth-first order differ:
\* the root, its two children, then the first child's child.
C1_Witness ==
  /\ Succeeded
  /\ Len(result) = 4
  /\ Len(NodeChildren(RootNode)) = 2
  /\ NodeOf(result[4]) \in {NodeChildren(NodeOf(result[2]))[j] :
                              j \in 1..Len(NodeChildren(NodeOf(result[2])))}

\* The events of one kind, in order.
Events(op) == SelectSeq(trace, LAMBDA e : e.op = op)

\* The stub dequeued last.
LastDequeued == Events("dequeue")[Len(Events("dequeue"))]

\* C2: a traversal that fails at any node returns the error and no completed
\* component at all, whatever was appended before; a descriptor missing at
\* the failing node's physical path gives the not-found error.
C2_NoPartialResult ==
  Failed =>
    /\ result = <<>>
    /\ err \in {"NotFound", "IOError", "ParseError", "CallbackError"}
    /\ (files[Join(LastDequeued.PhysicalPath, <<"component.json">>)].kind = "missing"
          <=> err = "NotFound")

\* The root has been appended, then the descriptor of its git subcomponent a
\* is missing at <root>/components/a/component.json.
C2_Witness ==
  /\ Failed
  /\ err = "NotFound"
  /\ Len(completedComponents) >= 1
  /\ LastDequeued.PhysicalPath = <<"", "r", "components", "a">>
  /\ files[<<"", "r", "components", "a", "component.json">>].kind = "missing"

\* The (physical path, logical path) pairs of the events of one kind.
EventNodes(op) ==
  [i \in 1..Len(Events(op)) |-> Node(Events(op)[i].PhysicalPath,
                                     Events(op)[i].LogicalPath)]

NoRepeat(seq) == \A i, j \in 1..Len(seq) : i # j => seq[i] # seq[j]

IsPrefix(s, t) == Len(s) <= Len(t) /\ SubSeq(t, 1, Len(s)) = s

\* C3: no (physical path, logical path) pair is dequeued, passed to the
\* callback or appended to the completed sequence more than once, also when
\* declarations of one parent share a Name and have a Source.
\* (Stated for descriptors that declare no subcomponent named ".": a
\* declaration that resolves to its parent's own directory is a cycle.)
C3_NoRevisit ==
  (\A p \in DOMAIN files : \A i \in 1..Len(files[p].Subcomponents) :
      files[p].Subcomponents[i].Name # ".")
  => /\ NoRepeat(EventNodes("dequeue"))
     /\ NoRepeat(EventNodes("callback"))
     /\ NoRepeat(EventNodes("append"))

\* The stubs that are due for the sourced declarations of a completed
\* component, as (physical path, logical path) pairs in declaration order.
DueChildren(c) ==
  LET ds == Sourced(c.Subcomponents)
  IN [i \in 1..Len(ds) |->
        Node(Join(c.PhysicalPath, RelativePathTo(ds[i])),
             Join(c.LogicalPath, <<ds[i].Name>>))]

\* C4: a declaration with an empty Source, whatever its Method, is never put
\* on the queue, never passed to the callback and never a completed entry of
\* its own: the stubs ever queued are the root and, per completed component,
\* one stub for each of its sourced declarations and none for the others;
\* only queued stubs are dequeued, dispatched and appended.
C4_InlineNeverQueued ==
  /\ EventNodes("enqueue") =
       Flatten([k \in 1..Len(completedComponents) |->
                  DueChildren(completedComponents[k])])
  /\ IsPrefix(EventNodes("dequeue"), <<RootNode>> \o EventNodes("enqueue"))
  /\ IsPrefix(EventNodes("callback"), EventNodes("dequeue"))
  /\ IsPrefix(EventNodes("append"), EventNodes("callback"))
  /\ \A k \in 1..Len(completedComponents) :
       NodeOf(completedComponents[k]) = EventNodes("append")[k]

\* A finished traversal of a root that declares an inline subcomponent with
\* Method "git" next to a sourced one: two entries, the root and the sourced.
C4_Witness ==
  /\ Succeeded
  /\ Len(result) = 2
  /\ \E i \in 1..Len(result[1].Subcomponents) :
       /\ result[1].Subcomponents[i].Source = ""
       /\ result[1].Subcomponents[i].Method = "git"

\* C5: a successful traversal has invoked the callback exactly once per
\* completed entry, in order, with the physical path the traversal assigned
\* to that node; a callback error is the last thing the traversal does: it
\* returns that error and nothing is dequeued, loaded or dispatched after.
C5_CallbackOncePerEntry ==
  /\ Succeeded =>
       /\ EventNodes("callback") = [i \in 1..Len(result) |-> NodeOf(result[i])]
       /\ \A i \in 1..Len(result) :
            Events("callback")[i].PhysicalPath = Events("dequeue")[i].PhysicalPath
  /\ err = "CallbackError" =>
       /\ pc = "returned"
       /\ trace[Len(trace)].op = "callback"
       /\ Len(Events("callback")) = Len(completedComponents) + 1

\* The callback fails for a node while a stub is still waiting in the queue
\* and another node has been completed before.
C5_Witness ==
  /\ err = "CallbackError"
  /\ queue # <<>>
  /\ Len(completedComponents) >= 1

\* C6: RelativePathTo is a function of (Method, Source, Name) alone: Method
\* "git" gives "components/<Name>" whatever the Source, otherwise a non-empty
\* Source gives "<Name>", otherwise "./"; a call changes no field of the
\* receiver and every call on it gives the same result.
C6_RelativePathTo ==
  /\ pathArg = pathOrig
  /\ \A i \in 1..Len(pathResults) :
       /\ pathArg.Method = "git" => pathResults[i] = <<"components", pathArg.Name>>
       /\ pathArg.Method # "git" /\ pathArg.Source # ""
            => pathResults[i] = <<pathArg.Name>>
       /\ pathArg.Method # "git" /\ pathArg.Source = ""
            => pathResults[i] = <<".", "">>
       /\ pathResults[i] = pathResults[1]

\* RelativePathTo has been called twice on {Method: "git", Name: "db"} with
\* no Source.
C6_Witness ==
  /\ Len(pathResults) = 2
  /\ pathArg = Decl("db", "", "git")
  /\ pathResults[2] = <<"components", "db">>

\* The commands Install has run for its i-th subcomponent.
CommandsFor(i) == SelectSeq(commands, LAMBDA k : k.sub = i)

\* C7: Install runs no command (no directory creation, no removal, no
\* clone) for an immediate subcomponent whose Method is not "git" or whose
\* Source is empty.
C7_InstallLeavesOthersUntouched ==
  \A i \in 1..Len(installArg.Subcomponents) :
    (installArg.Subcomponents[i].Method # "git"
       \/ installArg.Subcomponents[i].Source = "")
    => CommandsFor(i) = <<>>

\* The commands due for the immediate subcomponents with Method "git", in
\* declaration order: mkdir <installPath>/components, rm
\* <installPath>/components/<Name>, clone Source to the same target.
DueCommands ==
  Flatten([i \in 1..Len(installArg.Subcomponents) |->
     LET d == installArg.Subcomponents[i]
         target == Clean(installPath \o <<"components", d.Name>>)
     IN IF d.Method # "git" THEN <<>>
        ELSE <<Command("mkdir", "", installPath \o <<"components">>, i, FALSE),
               Command("rm", "", target, i, FALSE),
               Command("clone", d.Source, target, i, FALSE)>>])

Succeeds(k) == [k EXCEPT !.failed = FALSE]

\* C8: Install runs, for each immediate subcomponent with Method "git" in
\* declaration order, mkdir of <installPath>/components, removal of the
\* target <installPath>/components/<Name>, clone of Source into the target;
\* the first command that fails is the last one run and Install returns its
\* error; nothing is run for the subcomponents of a subcomponent.
C8_InstallSequence ==
  installPc = "returned" =>
    /\ IsPrefix([i \in 1..Len(commands) |-> Succeeds(commands[i])], DueCommands)
    /\ \A i \in 1..Len(commands) :
         commands[i].failed <=> (i = Len(commands) /\ installErr # "nil")
    /\ installErr = "nil" => Len(commands) = Len(DueCommands)
    /\ installErr # "nil" => commands # <<>>

\* Two git subcomponents, the second of which declares a git subcomponent of
\* its own; the removal for the second fails.
C8_Witness ==
  /\ installPc = "returned"
  /\ installErr # "nil"
  /\ Len(commands) = 5
  /\ commands[5].cmd = "rm"
  /\ installArg.Subcomponents[2].Subcomponents # <<>>

\* What the i-th dequeued stub's physical path holds as component.json.
DequeuedKind(i) ==
  files[Join(Events("dequeue")[i].PhysicalPath, <<"component.json">>)].kind

\* C9 as stated: the physical path of every dequeued stub holds a valid
\* descriptor when the stub is dequeued.
C9_DequeuedHasDescriptor ==
  \A i \in 1..Len(Events("dequeue")) : DequeuedKind(i) = "component"

\* C9 as amended: the physical path of every stub that is dequeued and then
\* dispatched or completed holds a valid descriptor; a stub dequeued without
\* one is the last stub dequeued, it is neither dispatched nor completed and
\* the traversal returns the load error.
C9_DequeuedLoadsOrAborts ==
  \A i \in 1..Len(Events("dequeue")) :
    /\ i <= Len(Events("callback")) => DequeuedKind(i) = "component"
    /\ DequeuedKind(i) # "component" =>
         /\ i = Len(Events("dequeue"))
         /\ Len(Events("callback")) < i
         /\ Len(completedComponents) < i
         /\ pc = "returned"
         /\ err = (IF DequeuedKind(i) = "missing" THEN "NotFound"
                   ELSE IF DequeuedKind(i) = "unreadable" THEN "IOError"
                   ELSE "ParseError")

\* The root is completed, then the stub of its subdirectory b is dequeued
\* and <root>/b/component.json does not parse.
C9_Witness ==
  /\ Len(Events("dequeue")) = 2
  /\ Events("dequeue")[2].PhysicalPath = <<"", "r", "b">>
  /\ DequeuedKind(2) = "malformed"
  /\ err = "ParseError"

\* A queued stub whose component.json is one its ancestors were loaded from.
OnOwnAncestorChain ==
  \E i \in 1..Len(queue) :
    \E j \in 1..Len(qmeta[i].chain) : qmeta[i].chain[j] = ComponentJSONPath(queue[i])

\* C10: a traversal in which no node resolves to a physical path on its own
\* ancestor chain terminates: it returns the completed sequence with the
\* queue empty or it returns the first error.
C10_Terminates ==
  <>(OnOwnAncestorChain
     \/ (pc = "returned" /\ (err = "nil" => queue = <<>> /\ result = completedComponents)))

\* A chain root - child - grandchild has been traversed to the end.
C10_Witness ==
  /\ Succeeded
  /\ queue = <<>>
  /\ Len(result) = 3
  /\ Len(result[3].PhysicalPath) > Len(result[2].PhysicalPath)
  /\ Len(result[2].PhysicalPath) > Len(result[1].PhysicalPath)

\* The stub due for declaration d of the completed component p, field by
\* field.
DueStub(p, d) ==
  [Name |-> d.Name,
   Source |-> "",
   Method |-> "",
   Subcomponents |-> <<>>,
   PhysicalPath |-> Join(p.PhysicalPath, RelativePathTo(d)),
   LogicalPath |-> Join(p.LogicalPath, <<d.Name>>),
   Config |-> IF d.Name \in DOMAIN p.Config.Subcomponents
              THEN p.Config.Subcomponents[d.Name]
              ELSE [Config |-> <<>>, Subcomponents |-> <<>>]]

\* The positions in the trace of the steps of one kind.
Positions(op) ==
  SelectSeq([i \in 1..Len(trace) |-> i], LAMBDA i : trace[i].op = op)

\* The number of the iteration (1 for the first dequeue) that queued the
\* stub dequeued k-th, k > 1: the queue hands out the stubs in the order in
\* which they were queued.
ParentOf(k) ==
  LET i == Positions("enqueue")[k - 1]
  IN Len(SelectSeq(SubSeq(trace, 1, i), LAMBDA e : e.op = "dequeue"))

\* The ancestor chain of the stub dequeued k-th: the component.json paths of
\* the nodes from the root down to its parent.
RECURSIVE ChainOf(_)
ChainOf(k) ==
  IF k = 1 THEN <<>>
  ELSE Append(ChainOf(ParentOf(k)),
              Join(Events("dequeue")[ParentOf(k)].PhysicalPath, <<"component.json">>))

\* The k-th completed component declares a sourced subcomponent that
\* resolves to its own directory or to that of one of its ancestors.
DeclaresAncestor(k) ==
  LET p == completedComponents[k]
      ancestors == Append(ChainOf(k), ComponentJSONPath(p))
  IN \E j \in 1..Len(p.Subcomponents) :
       /\ p.Subcomponents[j].Source # ""
       /\ \E m \in 1..Len(ancestors) :
            ancestors[m] = ComponentJSONPath(DueStub(p, p.Subcomponents[j]))

CycleDeclared == \E k \in 1..Len(completedComponents) : DeclaresAncestor(k)

\* The head of the queue is a stub on its own ancestor chain.
HeadOnOwnAncestorChain ==
  /\ queue # <<>>
  /\ \E j \in 1..Len(qmeta[1].chain) : qmeta[1].chain[j] = ComponentJSONPath(queue[1])

\* C11: there is no cycle guard.  Once a completed component has declared a
\* sourced subcomponent that resolves back to its ancestor chain, the
\* traversal does not return unless with an error: as long as loads and
\* callbacks succeed the queue holds a stub on its own ancestor chain and is
\* never empty, however many nodes have been dequeued, and every completion
\* of such a component has queued at least one more stub.
C11_NoCycleGuard ==
  CycleDeclared =>
    /\ ~Succeeded
    /\ Len(Events("enqueue")) >=
         Cardinality({k \in 1..Len(completedComponents) : DeclaresAncestor(k)})
    /\ pc = "loop" =>
         /\ queue # <<>>
         /\ OnOwnAncestorChain
         /\ Len(Events("enqueue")) >= Len(Events("dequeue"))

\* The subdirectory b of the root declares a subcomponent ".." with a
\* Source: root and b have been completed in turn, twice each, and the root
\* is at the head of the queue again.
C11_Witness ==
  /\ pc = "loop"
  /\ Len(completedComponents) >= 4
  /\ completedComponents[1].PhysicalPath = <<"", "r">>
  /\ completedComponents[2].PhysicalPath = <<"", "r", "b">>
  /\ completedComponents[3].PhysicalPath = <<"", "r">>
  /\ completedComponents[4].PhysicalPath = <<"", "r", "b">>
  /\ DeclaresAncestor(2)
  /\ ~DeclaresAncestor(1)
  /\ HeadOnOwnAncestorChain

\* The root declares a subcomponent "." with a Source: the root directory
\* has been completed three times and is queued again.
C11_DirectCycle ==
  /\ pc = "loop"
  /\ Len(completedComponents) >= 3
  /\ \A k \in 1..3 : completedComponents[k].PhysicalPath = startingPath
  /\ DeclaresAncestor(1)
  /\ HeadOnOwnAncestorChain

\* The steps that may come next after a step of one kind.
Follows(op) ==
  CASE op = "dequeue" -> {"load"}
    [] op = "load" -> {"loadConfig"}
    [] op = "loadConfig" -> {"environment", "common", "callback"}
    [] op = "environment" -> {"common", "callback"}
    [] op = "common" -> {"callback"}
    [] op = "callback" -> {"append"}
    [] op = "append" -> {"enqueue", "dequeue"}
    [] op = "enqueue" -> {"enqueue", "dequeue"}

\* The position of the dequeue that the i-th step belongs to.
BlockStart(i) ==
  CHOOSE j \in 1..i :
    /\ trace[j].op = "dequeue"
    /\ \A m \in (j + 1)..i : trace[m].op # "dequeue"

\* The enqueue steps that directly follow the i-th step.
RECURSIVE EnqueuedAfter(_)
EnqueuedAfter(i) ==
  IF i + 1 <= Len(trace) /\ trace[i + 1].op = "enqueue"
  THEN <<Node(trace[i + 1].PhysicalPath, trace[i + 1].LogicalPath)>>
       \o EnqueuedAfter(i + 1)
  ELSE <<>>

\* The config of the node whose stub was dequeued by step e, once the
\* descriptor, the environment overlay and the common overlay are merged.
MergedConfig(e) ==
  LET f == files[Join(e.PhysicalPath, <<"component.json">>)]
      ef == files[JoinAll(<<e.PhysicalPath, <<"config">>, <<environment \o ".json">> >>)]
      ofile == files[JoinAll(<<e.PhysicalPath, <<"config">>, <<"common.json">> >>)]
      loaded == Merge(f.Config, e.Config)
      overlaid == IF ef.kind = "config" THEN Merge(loaded, ef.Config) ELSE loaded
  IN IF ofile.kind = "config" THEN Merge(overlaid, ofile.Config) ELSE overlaid

\* C12: the steps on one dequeued node come in the order load, overlays
\* (environment before common), callback, append, enqueue of the children,
\* all on the node dequeued last; the callback is given the config in which
\* the pushed-down config and both overlays are merged; the children of a
\* node are queued after its callback and append, all of them before the next
\* node is dequeued.
C12_StrictOrder ==
  /\ trace # <<>> => trace[1].op = "dequeue"
  /\ \A i \in 1..(Len(trace) - 1) : trace[i + 1].op \in Follows(trace[i].op)
  /\ \A i \in 1..Len(trace) :
       /\ trace[i].op \notin {"dequeue", "enqueue"} =>
            NodeOf(trace[i]) = NodeOf(trace[BlockStart(i)])
       /\ trace[i].op = "callback" => trace[i].Config = MergedConfig(trace[BlockStart(i)])
       /\ trace[i].op = "append" =>
            \E k \in 1..Len(completedComponents) :
              /\ k = Len(SelectSeq(SubSeq(trace, 1, i), LAMBDA e : e.op = "append"))
              /\ completedComponents[k].Config = trace[i - 1].Config
              /\ EnqueuedAfter(i) = DueChildren(completedComponents[k])

\* The git subcomponent a, with a config pushed down by the root and both
\* overlay files, has been dispatched and completed after the root.
C12_Witness ==
  /\ Len(completedComponents) >= 2
  /\ \E k \in 2..Len(completedComponents) :
       /\ completedComponents[k].PhysicalPath = <<"", "r", "components", "a">>
       /\ completedComponents[k].Config.Config =
            ("k" :> "pushed") @@ ("p" :> "pushed") @@ ("e" :> "env") @@ ("c" :> "common")
  /\ \E i \in 1..Len(trace) : trace[i].op = "common" /\ trace[i - 1].op = "environment"

\* The stub the traversal starts with.
RootStub ==
  [Name |-> "", Source |-> "", Method |-> "", Subcomponents |-> <<>>,
   PhysicalPath |-> startingPath, LogicalPath |-> <<".", "">>,
   Config |-> [Config |-> <<>>, Subcomponents |-> <<>>]]

\* C13: the queue starts with the root stub (logical path "./", the starting
\* path, an empty config); the stubs queued for the sourced declarations of
\* the component completed last are, in declaration order, the last stubs of
\* the queue, each with the declaration's Name, the parent's physical path
\* joined with RelativePathTo of the declaration, the parent's logical path
\* joined with the Name, the parent's Config.Subcomponents entry for the Name
\* (the empty config without one) and no Source, Method or Subcomponents.
C13_StubFields ==
  /\ trace = <<>> => queue = <<RootStub>>
  /\ trace # <<>> =>
       /\ NodeOf(trace[1]) = NodeOf(RootStub)
       /\ trace[1].Config = RootStub.Config
  /\ pc = "loop" /\ completedComponents # <<>> =>
       LET p == completedComponents[Len(completedComponents)]
           ds == Sourced(p.Subcomponents)
           n == Len(ds)
       IN /\ Len(queue) >= n
          /\ \A i \in 1..n : queue[Len(queue) - n + i] = DueStub(p, ds[i])

\* The root, whose config has an entry for a and none for c, has been
\* completed: the stubs of c and of a are queued, the declaration of a
\* carrying a Method and subcomponents of its own.
C13_Witness ==
  /\ pc = "loop"
  /\ Len(completedComponents) = 1
  /\ completedComponents[1].Config.Subcomponents = RootConfig.Subcomponents
  /\ completedComponents[1].Subcomponents = <<Decl("c", Src, ""), NestedDecl("a", Src, "git")>>
  /\ Len(queue) = 2
  /\ queue[1].Config = EmptyConfig
  /\ queue[2].Config = Settings(("k" :> "pushed") @@ ("p" :> "pushed"))
  /\ queue[2].PhysicalPath = <<"", "r", "components", "a">>
  /\ queue[2].LogicalPath = <<"a">>

\* The merges that directly follow the i-th step.
RECURSIVE MergesAfter(_)
MergesAfter(i) ==
  IF i + 1 <= Len(trace) /\ trace[i + 1].op \in {"environment", "common"}
  THEN <<trace[i + 1].op>> \o MergesAfter(i + 1)
  ELSE <<>>

OverlayError(kind) == IF kind = "unreadable" THEN "IOError" ELSE "ParseError"

\* C14: LoadConfig merges at most the environment overlay and then the common
\* overlay, each exactly when the file is there and parses.  A missing file
\* is passed over.  An environment overlay that is there but cannot be read
\* or parsed ends LoadConfig with its error, nothing merged and the common
\* overlay not looked at; a failing common overlay ends it with its error
\* after at most the merge of the environment overlay.
C14_OverlayOrder ==
  \A i \in 1..Len(trace) :
    trace[i].op = "loadConfig" =>
      LET envPath == JoinAll(<<trace[i].PhysicalPath, <<"config">>,
                               <<environment \o ".json">> >>)
          comPath == JoinAll(<<trace[i].PhysicalPath, <<"config">>, <<"common.json">> >>)
          merges == MergesAfter(i)
          last == i + Len(merges)
      IN /\ envPath \in DOMAIN files
         /\ Len(merges) <= 2
         /\ files[envPath].kind \in {"unreadable", "malformed"} =>
              /\ merges = <<>>
              /\ comPath \notin DOMAIN files
              /\ last = Len(trace)
              /\ pc = "returned"
              /\ err = OverlayError(files[envPath].kind)
         /\ files[envPath].kind \in {"missing", "config"} =>
              /\ comPath \in DOMAIN files
              /\ merges =
                   (IF files[envPath].kind = "config" THEN <<"environment">> ELSE <<>>)
                   \o (IF files[comPath].kind = "config" THEN <<"common">> ELSE <<>>)
              /\ files[comPath].kind \in {"unreadable", "malformed"} =>
                   /\ last = Len(trace)
                   /\ pc = "returned"
                   /\ err = OverlayError(files[comPath].kind)
              /\ files[comPath].kind \in {"missing", "config"} =>
                   /\ last < Len(trace)
                   /\ trace[last + 1].op = "callback"

\* The root's environment overlay has been merged, then its common overlay
\* does not parse.
C14_Witness ==
  /\ Failed
  /\ err = "ParseError"
  /\ Len(trace) = 4
  /\ trace[3].op = "loadConfig"
  /\ trace[4].op = "environment"
  /\ files[<<"", "r", "config", "common.json">>].kind = "malformed"

\* The root's environment overlay cannot be read: the common overlay has not
\* been looked at.
C14_EnvironmentFails ==
  /\ Failed
  /\ err = "IOError"
  /\ trace[Len(trace)].op = "loadConfig"
  /\ <<"", "r", "config", "common.json">> \notin DOMAIN files

\* C15: a step of the traversal leaves the completed sequence as it is or
\* appends one entry at its end; no entry is changed, moved or removed, and
\* the sequence returned by a successful traversal is the completed sequence,
\* so that the completed sequence is at every point a prefix of it.
C15_AppendOnly ==
  [][/\ IsPrefix(completedComponents, completedComponents')
     /\ Len(completedComponents') <= Len(completedComponents) + 1
     /\ pc' = "returned" /\ err' = "nil" => result' = completedComponents']_vars

\* A successful traversal has returned three entries.
C15_Witness ==
  /\ Succeeded
  /\ Len(result) = 3
  /\ result = completedComponents
  /\ NodeOf(result[1]) # NodeOf(result[2])

\* The stubs the traversal queues for the component Install was called on.
InstallStubs == Enqueue(installArg, 1, <<>>)

\* The position among them of the stub for the i-th declaration.
StubIndex(i) == Len(Sourced(SubSeq(installArg.Subcomponents, 1, i)))

\* C16: the directory Install clones an immediate subcomponent with Method
\* "git" and a Source into is the physical path of the stub that the
\* traversal queues for that declaration.
C16_SameLocation ==
  \A i \in 1..Len(installArg.Subcomponents) :
    LET d == installArg.Subcomponents[i]
    IN d.Method = "git" /\ d.Source # "" =>
         /\ StubIndex(i) \in 1..Len(InstallStubs)
         /\ InstallStubs[StubIndex(i)].Name = d.Name
         /\ \A k \in 1..Len(commands) :
              commands[k].sub = i /\ commands[k].cmd = "clone" =>
                /\ commands[k].source = d.Source
                /\ commands[k].target = InstallStubs[StubIndex(i)].PhysicalPath
         /\ installPc = "returned" /\ installErr = "nil" =>
              \E k \in 1..Len(commands) : commands[k].sub = i /\ commands[k].cmd = "clone"

\* Install on "/r/" has cloned the second subcomponent, b, into
\* /r/components/b; the first one is inline.
C16_Witness ==
  /\ installPc = "returned"
  /\ installErr = "nil"
  /\ installPath = <<"", "r", "">>
  /\ Len(installArg.Subcomponents) = 2
  /\ installArg.Subcomponents[1].Source = ""
  /\ installArg.Subcomponents[2] =
       [Name |-> "b", Source |-> Src, Method |-> "git", Subcomponents |-> <<>>]
  /\ \E k \in 1..Len(commands) :
       /\ commands[k].cmd = "clone"
       /\ commands[k].sub = 2
       /\ commands[k].target = <<"", "r", "components", "b">>

\* The enqueue steps that directly follow the i-th step, with their configs.
RECURSIVE StubsAfter(_)
StubsAfter(i) ==
  IF i + 1 <= Len(trace) /\ trace[i + 1].op = "enqueue"
  THEN <<[PhysicalPath |-> trace[i + 1].PhysicalPath,
          LogicalPath |-> trace[i + 1].LogicalPath,
          Config |-> trace[i + 1].Config]>> \o StubsAfter(i + 1)
  ELSE <<>>

\* The component the i-th step, a callback, was given: the descriptor at the
\* node's physical path with the node's paths and merged config.
PassedToCallback(i) ==
  LET f == files[Join(trace[i].PhysicalPath, <<"component.json">>)]
  IN [Name |-> f.Name, Source |-> "", Method |-> "",
      Subcomponents |-> f.Subcomponents,
      PhysicalPath |-> trace[i].PhysicalPath,
      LogicalPath |-> trace[i].LogicalPath,
      Config |-> trace[i].Config]

\* C17: the component appended after a callback that returned nil is the
\* component as the callback left it, and the stubs queued next are those due
\* for it: one per sourced declaration of the Subcomponents the callback
\* left, below the physical and logical path it left, with the entry of the
\* Config.Subcomponents it left.
C17_CallbackWritesShow ==
  \A i \in 1..(Len(trace) - 1) :
    trace[i].op = "callback" =>
      LET k == Len(SelectSeq(SubSeq(trace, 1, i), LAMBDA e : e.op = "callback"))
          cb == trace[i + 1].op
          a == IF cb \in CallbackWrites THEN i + 2 ELSE i + 1
          ds == Sourced(completedComponents[k].Subcomponents)
      IN /\ k <= Len(completedComponents)
         /\ completedComponents[k] = Callback(cb, PassedToCallback(i))
         /\ trace[a].op = "append"
         /\ StubsAfter(a) =
              [j \in 1..Len(ds) |->
                 LET stub == DueStub(completedComponents[k], ds[j])
                 IN [PhysicalPath |-> stub.PhysicalPath,
                     LogicalPath |-> stub.LogicalPath,
                     Config |-> stub.Config]]

\* The root's callback has set the root's physical path to /r/c: the root is
\* completed with that path and its subcomponent a is queued below it, with
\* the config the root pushes down.
C17_Witness ==
  /\ pc = "loop"
  /\ Len(completedComponents) = 1
  /\ completedComponents[1].PhysicalPath = <<"", "r", "c">>
  /\ completedComponents[1].LogicalPath = <<".", "">>
  /\ Len(queue) = 2
  /\ queue[2].PhysicalPath = <<"", "r", "c", "components", "a">>
  /\ queue[2].Config = RootConfig.Subcomponents["a"]
  /\ trace[Len(trace)].op = "enqueue"

\* The i-th queued stub is at the depth recorded for it: the root at depth
\* 0, any other stub one below the completed component it was queued for,
\* the last one on its ancestor chain.
AtRecordedDepth(i) ==
  LET m == qmeta[i]
  IN /\ m.depth = Len(m.chain)
     /\ m.depth = 0 => NodeOf(queue[i]) = RootNode
     /\ m.depth > 0 =>
          \E k \in 1..Len(completedComponents) :
            LET p == completedComponents[k]
            IN /\ ComponentJSONPath(p) = m.chain[m.depth]
               /\ \E j \in 1..Len(p.Subcomponents) :
                    /\ p.Subcomponents[j].Source # ""
                    /\ NodeOf(queue[i]) = NodeOf(DueStub(p, p.Subcomponents[j]))

\* C18: the stubs in the queue are in the order of their depth in the tree,
\* the shallowest first, and the deepest is at most one level below the
\* shallowest.
C18_QueueDepths ==
  /\ Len(qmeta) = Len(queue)
  /\ \A i \in 1..Len(queue) : AtRecordedDepth(i)
  /\ \A i, j \in 1..Len(queue) : i < j => qmeta[i].depth <= qmeta[j].depth
  /\ queue # <<>> => qmeta[Len(queue)].depth <= qmeta[1].depth + 1

\* The queue holds the root's second subcomponent and, behind it, the
\* subcomponent of the first.
C18_Witness ==
  /\ pc = "loop"
  /\ Len(queue) = 2
  /\ qmeta[1].depth = 1
  /\ qmeta[2].depth = 2
  /\ Len(queue[2].PhysicalPath) > Len(queue[1].PhysicalPath)

\* C19: when the traversal returns an error at the k-th dequeued node, the
\* callback has been invoked once for each of the k-1 nodes dequeued before,
\* in their order, and for the k-th node too exactly when the error is the
\* callback's; those k-1 nodes have been completed, yet nothing is returned.
C19_CallbacksStay ==
  Failed =>
    LET k == Len(Events("dequeue"))
        n == IF err = "CallbackError" THEN k ELSE k - 1
    IN /\ k >= 1
       /\ Len(Events("callback")) = n
       /\ \A i \in 1..n : EventNodes("callback")[i] = EventNodes("dequeue")[i]
       /\ Len(completedComponents) = k - 1
       /\ result = <<>>

\* The root has been dispatched and completed, then the descriptor of its
\* git subcomponent a is not found.
C19_Witness ==
  /\ Failed
  /\ err = "NotFound"
  /\ Len(Events("dequeue")) = 2
  /\ Len(Events("callback")) = 1
  /\ Events("callback")[1].PhysicalPath = startingPath
  /\ Events("dequeue")[2].PhysicalPath = <<"", "r", "components", "a">>
  /\ result = <<>>

====
